---------------------------- MODULE Spec2Model ----------------------------
(***************************************************************************)
(* Model of the conference data provider (ConferenceData) and of the map   *)
(* page (MapPage) that consumes it.                                        *)
(*                                                                         *)
(* Strings are sequences of UTF-16 code units (65 = "A", 97 = "a",         *)
(* 32 = " ", 44 = ",", 45 = "-", 46 = ".").  Arrays are sequences.  An     *)
(* optional field that is absent is recorded by a has... flag.  Objects    *)
(* that the code shares by reference are named: a speaker by its id (its   *)
(* position in the fetched document), a session by its path                *)
(* <<day, group, session>> within its aggregate, an aggregate by its       *)
(* position in the heap `aggs`.                                            *)
(*                                                                         *)
(* The sources import rxjs without fixing its release.  In every release   *)
(* a stopped subject hands no value to its observers; a stopped            *)
(* ReplaySubject either keeps its buffer (next returns before buffering) or *)
(* replaces it (next buffers before it returns).  Which of the two the     *)
(* build does is chosen in Init.                                           *)
(***************************************************************************)
EXTENDS Integers, Sequences, FiniteSets, TLC

VARIABLES
    replayBuffersWhenStopped, \* build: does ReplaySubject.next buffer after stop
    inFlight,   \* number of http requests without a response yet
    calls,      \* number of refresh() calls made so far
    aggs,       \* heap: the aggregates parsed by the successful fetches
    cache,      \* the ReplaySubject(1): buffer, isStopped, hasError
    subs,       \* the subscribers of the query observables
    logged,     \* number of errors written to console.log
    page,       \* the MapPage
    fcall       \* a direct call of filterSession: arguments and outcome

vars == <<replayBuffersWhenStopped, inFlight, calls, aggs, cache, subs,
          logged, page, fcall>>

-----------------------------------------------------------------------------
(* Bounds of the model *)

MaxRefresh == 2
MaxSubs == 1

-----------------------------------------------------------------------------
(* Strings *)

\* String.prototype.toLowerCase on one code unit
LowerUnit(c) == IF c >= 65 /\ c <= 90 THEN c + 32 ELSE c

toLowerCase(s) == [i \in 1..Len(s) |-> LowerUnit(s[i])]

\* String.prototype.indexOf(needle) > -1
Contains(hay, needle) ==
    \E i \in 0..(Len(hay) - Len(needle)) :
        SubSeq(hay, i + 1, i + Len(needle)) = needle

\* String.prototype.replace(/,|\.|-/g, ' ')
ReplacePunct(s) ==
    [i \in 1..Len(s) |-> IF s[i] \in {44, 45, 46} THEN 32 ELSE s[i]]

\* String.prototype.split(' '): the pieces between the spaces, empty ones kept
RECURSIVE SplitFrom(_, _, _)
SplitFrom(s, i, cur) ==
    IF i > Len(s) THEN <<cur>>
    ELSE IF s[i] = 32 THEN <<cur>> \o SplitFrom(s, i + 1, <<>>)
    ELSE SplitFrom(s, i + 1, Append(cur, s[i]))

split(s) == SplitFrom(s, 1, <<>>)

\* String.prototype.trim: white space removed at both ends
IsSpace(c) == c \in {9, 10, 13, 32}

RECURSIVE TrimLeft(_)
TrimLeft(s) == IF s # <<>> /\ IsSpace(Head(s)) THEN TrimLeft(Tail(s)) ELSE s

RECURSIVE TrimRight(_)
TrimRight(s) ==
    IF s # <<>> /\ IsSpace(s[Len(s)])
    THEN TrimRight(SubSeq(s, 1, Len(s) - 1)) ELSE s

trim(s) == TrimRight(TrimLeft(s))

\* Array.prototype.filter(w => !!w.trim().length)
RECURSIVE NonBlank(_)
NonBlank(ws) ==
    IF ws = <<>> THEN <<>>
    ELSE IF Len(trim(Head(ws))) # 0 THEN <<Head(ws)>> \o NonBlank(Tail(ws))
    ELSE NonBlank(Tail(ws))

\* getTimeline: queryText to queryWords
QueryWords(queryText) == NonBlank(split(ReplacePunct(toLowerCase(queryText))))

\* Array.prototype.pop of a non-empty array: its last element
pop(parts) == parts[Len(parts)]

\* name.split(' ').pop()
LastToken(name) == pop(split(name))

\* Comparison of two strings by code units: -1, 0 or 1 (the default order of
\* Array.prototype.sort on strings)
RECURSIVE CompareUnits(_, _)
CompareUnits(a, b) ==
    IF a = <<>> /\ b = <<>> THEN 0
    ELSE IF a = <<>> THEN -1
    ELSE IF b = <<>> THEN 1
    ELSE IF Head(a) < Head(b) THEN -1
    ELSE IF Head(a) > Head(b) THEN 1
    ELSE CompareUnits(Tail(a), Tail(b))

\* String.prototype.localeCompare on letters: alphabetical order first, and
\* between strings that differ only in case, lower case first
CaseOrder(alphabetical, a, b) ==
    IF alphabetical # 0 THEN alphabetical ELSE CompareUnits(b, a)

localeCompare(a, b) ==
    CaseOrder(CompareUnits(toLowerCase(a), toLowerCase(b)), a, b)

-----------------------------------------------------------------------------
(* The documents the server can return for data/data.json *)

DocIds == {1, 2}

RawSession(name, tracks, hasTracks, speakerNames, hasSpeakerNames) ==
    [name |-> name, tracks |-> tracks, hasTracks |-> hasTracks,
     speakerNames |-> speakerNames, hasSpeakerNames |-> hasSpeakerNames,
     speakers |-> <<>>, hasSpeakers |-> FALSE, hide |-> FALSE]

RawGroup(sessions) == [sessions |-> sessions, hide |-> FALSE]

\* shownSessions = -1 stands for the absent field
RawDay(groups) == [groups |-> groups, shownSessions |-> -1]

RawSpeaker(id, name) ==
    [id |-> id, name |-> name, sessions |-> <<>>, hasSessions |-> FALSE]

\* Document 1: speakers "A Z", "Z A", "b"; two days; a group without
\* sessions; a session without tracks entries; a session without the
\* speakerNames field; a speaker name that matches nobody; a name twice.
Doc1 ==
    [doc |-> 1,
     schedule |-> <<
        RawDay(<<
            RawGroup(<<
                RawSession(<<65, 98>>, << <<84>>, <<68>> >>, TRUE,
                           << <<90, 32, 65>>, <<65, 32, 90>> >>, TRUE),
                RawSession(<<98>>, << <<84>> >>, TRUE,
                           << <<90, 32, 65>>, <<110>> >>, TRUE) >>),
            RawGroup(<<>>) >>),
        RawDay(<<
            RawGroup(<<
                RawSession(<<97, 32, 66>>, <<>>, TRUE, <<>>, FALSE),
                RawSession(<<66>>, << <<100>>, <<84>> >>, TRUE,
                           << <<98>>, <<98>> >>, TRUE) >>) >>) >>,
     speakers |-> << RawSpeaker(1, <<65, 32, 90>>),
                     RawSpeaker(2, <<90, 32, 65>>),
                     RawSpeaker(3, <<98>>) >>,
     map |-> << [name |-> <<80>>, center |-> FALSE],
                [name |-> <<81>>, center |-> TRUE] >>,
     tracks |-> <<>>, hasTracks |-> FALSE]

\* Document 2: one day; a session without the tracks field; no centre.
Doc2 ==
    [doc |-> 2,
     schedule |-> <<
        RawDay(<<
            RawGroup(<<
                RawSession(<<98>>, << <<68>> >>, TRUE, <<>>, FALSE),
                RawSession(<<65, 98>>, <<>>, FALSE, << <<98>> >>, TRUE) >>) >>) >>,
     speakers |-> << RawSpeaker(1, <<98>>), RawSpeaker(2, <<97>>) >>,
     map |-> << [name |-> <<82>>, center |-> FALSE] >>,
     tracks |-> <<>>, hasTracks |-> FALSE]

Document(d) == IF d = 1 THEN Doc1 ELSE Doc2

-----------------------------------------------------------------------------
(* processData and processSession *)

RECURSIVE Concat(_)
Concat(seqs) == IF seqs = <<>> THEN <<>> ELSE Head(seqs) \o Concat(Tail(seqs))

\* The sessions in the order of the nested forEach loops
GroupPaths(data, d, g) ==
    [s \in 1..Len(data.schedule[d].groups[g].sessions) |-> <<d, g, s>>]

DayPaths(data, d) ==
    Concat([g \in 1..Len(data.schedule[d].groups) |-> GroupPaths(data, d, g)])

SessionPaths(data) ==
    Concat([d \in 1..Len(data.schedule) |-> DayPaths(data, d)])

SessionAt(data, p) == data.schedule[p[1]].groups[p[2]].sessions[p[3]]

\* data.speakers.find(s => s.name === speakerName): the position of the
\* first speaker of that name, 0 for undefined
find(speakers, speakerName) ==
    IF \E i \in 1..Len(speakers) : speakers[i].name = speakerName
    THEN CHOOSE i \in 1..Len(speakers) :
            /\ speakers[i].name = speakerName
            /\ \A j \in 1..(i - 1) : speakers[j].name # speakerName
    ELSE 0

\* Variant: the session is not pushed on speaker.sessions
LinkOne_noBackLink(data, p, i) ==
    IF i = 0 THEN data
    ELSE [data EXCEPT
            !.schedule[p[1]].groups[p[2]].sessions[p[3]].speakers =
                Append(@, data.speakers[i].id)]
\* if (speaker) {...}: the speaker found at position i (0: none) and the
\* session at p are linked to each other
LinkOne(data, p, i) ==
    IF i = 0 THEN data
    ELSE [data EXCEPT
            !.schedule[p[1]].groups[p[2]].sessions[p[3]].speakers =
                Append(@, data.speakers[i].id),
            !.speakers[i].hasSessions = TRUE,
            !.speakers[i].sessions = Append(@, p)]

\* session.speakerNames.forEach(...), from name k on
RECURSIVE LinkNames(_, _, _, _)
LinkNames(data, p, names, k) ==
    IF k > Len(names) THEN data
    ELSE LinkNames(LinkOne(data, p, find(data.speakers, names[k])),
                   p, names, k + 1)

\* indexOf(track) < 0
InSeq(seq, x) == \E i \in 1..Len(seq) : seq[i] = x

RECURSIVE CollectTracks(_, _, _)
CollectTracks(tracks, sessionTracks, k) ==
    IF k > Len(sessionTracks) THEN tracks
    ELSE IF InSeq(tracks, sessionTracks[k])
         THEN CollectTracks(tracks, sessionTracks, k + 1)
         ELSE CollectTracks(Append(tracks, sessionTracks[k]), sessionTracks, k + 1)

\* session.speakers = []
ResetSpeakers(data, p) ==
    [data EXCEPT !.schedule[p[1]].groups[p[2]].sessions[p[3]] =
        [@ EXCEPT !.speakers = <<>>, !.hasSpeakers = TRUE]]

\* if (session.speakerNames) {...}
LinkSession(data, p) ==
    IF data.schedule[p[1]].groups[p[2]].sessions[p[3]].hasSpeakerNames
    THEN LinkNames(data, p,
            data.schedule[p[1]].groups[p[2]].sessions[p[3]].speakerNames, 1)
    ELSE data

\* if (session.tracks) {...}
TrackSession(data, p) ==
    IF data.schedule[p[1]].groups[p[2]].sessions[p[3]].hasTracks
    THEN [data EXCEPT !.tracks = CollectTracks(@,
            data.schedule[p[1]].groups[p[2]].sessions[p[3]].tracks, 1)]
    ELSE data

processSession(data, p) ==
    TrackSession(LinkSession(ResetSpeakers(data, p), p), p)

RECURSIVE ProcessSessions(_, _, _)
ProcessSessions(data, paths, k) ==
    IF k > Len(paths) THEN data
    ELSE ProcessSessions(processSession(data, paths[k]), paths, k + 1)

\* Array.prototype.sort on a short array: insertion sort, which leaves equal
\* elements in their order
RECURSIVE InsertSpeaker(_, _)
InsertSpeaker(sorted, x) ==
    IF sorted = <<>> THEN <<x>>
    ELSE IF localeCompare(LastToken(Head(sorted).name), LastToken(x.name)) > 0
         THEN <<x>> \o sorted
         ELSE <<Head(sorted)>> \o InsertSpeaker(Tail(sorted), x)

RECURSIVE SortSpeakersFrom(_, _, _)
SortSpeakersFrom(sorted, speakers, k) ==
    IF k > Len(speakers) THEN sorted
    ELSE SortSpeakersFrom(InsertSpeaker(sorted, speakers[k]), speakers, k + 1)

SortSpeakers(speakers) == SortSpeakersFrom(<<>>, speakers, 1)

RECURSIVE InsertTrack(_, _)
InsertTrack(sorted, x) ==
    IF sorted = <<>> THEN <<x>>
    ELSE IF CompareUnits(Head(sorted), x) > 0
         THEN <<x>> \o sorted
         ELSE <<Head(sorted)>> \o InsertTrack(Tail(sorted), x)

RECURSIVE SortTracksFrom(_, _, _)
SortTracksFrom(sorted, tracks, k) ==
    IF k > Len(tracks) THEN sorted
    ELSE SortTracksFrom(InsertTrack(sorted, tracks[k]), tracks, k + 1)

\* Variant: the tracks are left in the order they were met
SortTracks_unsorted(tracks) == tracks
\* data.tracks.sort()
SortTracks(tracks) == SortTracksFrom(<<>>, tracks, 1)

\* data.tracks = []
ResetTracks(data) == [data EXCEPT !.tracks = <<>>, !.hasTracks = TRUE]

\* The two sorts that end processData
SortBoth(data) ==
    [data EXCEPT !.speakers = SortSpeakers(@), !.tracks = SortTracks(@)]

processData(data) ==
    SortBoth(ProcessSessions(ResetTracks(data), SessionPaths(data), 1))

-----------------------------------------------------------------------------
(* filterSession and getTimeline *)

\* UserData.hasFavorite(sessionName), favs being the user's favourites
hasFavorite(favs, sessionName) == sessionName \in favs

\* Variant: the session name is compared as it is written
RECURSIVE WordLoop_caseSensitive(_, _, _, _)
WordLoop_caseSensitive(name, queryWords, k, matches) ==
    IF k > Len(queryWords) THEN matches
    ELSE WordLoop_caseSensitive(name, queryWords, k + 1,
                  IF Contains(name, queryWords[k]) THEN TRUE ELSE matches)
\* queryWords.forEach(...)
RECURSIVE WordLoop(_, _, _, _)
WordLoop(name, queryWords, k, matches) ==
    IF k > Len(queryWords) THEN matches
    ELSE WordLoop(name, queryWords, k + 1,
                  IF Contains(toLowerCase(name), queryWords[k])
                  THEN TRUE ELSE matches)

\* session.tracks.forEach(...)
RECURSIVE TrackLoop(_, _, _, _)
TrackLoop(tracks, excludeTracks, k, matches) ==
    IF k > Len(tracks) THEN matches
    ELSE TrackLoop(tracks, excludeTracks, k + 1,
                   IF ~InSeq(excludeTracks, tracks[k]) THEN TRUE ELSE matches)

\* The session after the call, and whether the call threw (a TypeError on
\* session.tracks.forEach when the session has no tracks field; hide is not
\* written then)
filterSession(session, queryWords, excludeTracks, segment, favs) ==
    LET matchesQueryText ==
            IF Len(queryWords) # 0
            THEN WordLoop(session.name, queryWords, 1, FALSE) ELSE TRUE
        matchesTracks == TrackLoop(session.tracks, excludeTracks, 1, FALSE)
        matchesSegment ==
            IF segment = "favorites"
            THEN hasFavorite(favs, session.name) ELSE TRUE
    IN  IF ~session.hasTracks
        THEN [threw |-> TRUE, session |-> session]
        ELSE [threw |-> FALSE,
              session |-> [session EXCEPT !.hide =
                  ~(matchesQueryText /\ matchesTracks /\ matchesSegment)]]

\* Variant: day.shownSessions = day.shownSessions || 0
StartDay_keepCount(day) ==
    IF day.shownSessions = -1 THEN [day EXCEPT !.shownSessions = 0] ELSE day
\* day.shownSessions = 0
StartDay(day) == [day EXCEPT !.shownSessions = 0]

\* The body of group.sessions.forEach for session k of group g, r being
\* what filterSession did: the day after it, and whether it threw
VisitSession(day, g, k, r) ==
    IF r.threw THEN [day |-> day, threw |-> TRUE]
    ELSE IF ~r.session.hide
    THEN [day |-> [day EXCEPT !.groups[g].sessions[k] = r.session,
                              !.groups[g].hide = FALSE,
                              !.shownSessions = @ + 1],
          threw |-> FALSE]
    ELSE [day |-> [day EXCEPT !.groups[g].sessions[k] = r.session],
          threw |-> FALSE]

\* group.sessions.forEach(...), from session k on; v is the outcome so far
RECURSIVE SessionLoop(_, _, _, _, _, _, _)
SessionLoop(v, g, k, queryWords, excludeTracks, segment, favs) ==
    IF v.threw \/ k > Len(v.day.groups[g].sessions) THEN v
    ELSE SessionLoop(
            VisitSession(v.day, g, k,
                filterSession(v.day.groups[g].sessions[k], queryWords,
                              excludeTracks, segment, favs)),
            g, k + 1, queryWords, excludeTracks, segment, favs)

\* group.hide = true
HideGroup(v, g) == [v EXCEPT !.day.groups[g].hide = TRUE]

\* day.groups.forEach(...), from group g on; v is the outcome so far
RECURSIVE GroupLoop(_, _, _, _, _, _)
GroupLoop(v, g, queryWords, excludeTracks, segment, favs) ==
    IF v.threw \/ g > Len(v.day.groups) THEN v
    ELSE GroupLoop(
            SessionLoop(HideGroup(v, g), g, 1, queryWords, excludeTracks,
                        segment, favs),
            g + 1, queryWords, excludeTracks, segment, favs)

NoDay == [groups |-> <<>>, shownSessions |-> -1]

\* return day, v being the outcome of the loops
Returned(data, dayIndex, v) ==
    [data |-> [data EXCEPT !.schedule[dayIndex + 1] = v.day],
     threw |-> v.threw,
     day |-> IF v.threw THEN NoDay ELSE v.day]

\* The function getTimeline maps over the cache, applied to aggregate `data`:
\* the aggregate as it is left, whether the function threw (a TypeError on
\* day.shownSessions when schedule[dayIndex] is undefined, or the one of
\* filterSession), and the day it returned
getTimeline(data, dayIndex, queryText, excludeTracks, segment, favs) ==
    IF dayIndex < 0 \/ dayIndex + 1 > Len(data.schedule)
    THEN [data |-> data, threw |-> TRUE, day |-> NoDay]
    ELSE Returned(data, dayIndex,
            GroupLoop([day |-> StartDay(data.schedule[dayIndex + 1]),
                       threw |-> FALSE],
                      1, QueryWords(queryText), excludeTracks, segment, favs))

-----------------------------------------------------------------------------
(* The cache, its subscribers and the map page *)

\* The inputs of the query methods
DayIndexes == {0, 1, 2}
QueryTexts == {<<>>, <<65, 44, 90>>, <<98, 46, 46, 66>>}
                                        \* "", "A,Z", "b..B"
ExcludeLists == {<<>>, << <<84>> >>, << <<68>>, <<84>> >>}
                                        \* [], ["T"], ["D", "T"]
Segments == {"all", "favorites"}
FavoriteSets == {{}, {<<65, 98>>}}      \* nothing, or session "Ab"

\* The getTimeline calls the consumers of the cache make
TimelineQueries ==
    { <<0, <<65, 44, 90>>, << <<84>> >>, "favorites">>,
      <<1, <<>>, <<>>, "all">> }

Kinds == {"timeline", "speakers", "tracks", "map"}

\* Variant: the object graph built for the document before is handed back
json_cached(d) ==
    IF \E i \in 1..Len(aggs) : aggs[i].doc = d
    THEN aggs[CHOOSE i \in 1..Len(aggs) : aggs[i].doc = d]
    ELSE Document(d)
\* res.json(): a fresh object graph for the document
json(d) == Document(d)

\* The two map operators of refresh()
Pipeline(d) == processData(json(d))

\* Variant: only values are handed to the cache, as by
\* .subscribe(data => this.cache.next(data), err => ...)
ObserverForwards_nextOnly == {"next"}
\* .subscribe(this.cache, err => ...): handed an observer object, subscribe
\* takes next, error and complete from that object and drops the callbacks
\* that follow it, so all three notifications of the request reach the cache
ObserverForwards == {"next", "error", "complete"}

\* A subscriber: its query, the emissions it got (the aggregate each was
\* projected from, the day a timeline returned, the favourites then), its
\* status (active, completed or errored by the cache, threw in its own
\* function), and the number of aggregates fetched when it subscribed
NewSub(kind, dayIndex, queryText, excludeTracks, segment, isPage) ==
    [kind |-> kind, dayIndex |-> dayIndex, queryText |-> queryText,
     excludeTracks |-> excludeTracks, segment |-> segment, isPage |-> isPage,
     got |-> <<>>, status |-> "active", at |-> Len(aggs)]

\* The callback of MapPage.onPageLoaded for one emitted collection: a map, a
\* marker for every point, a once-only idle listener
PageHandler(pg, mapData) ==
    [pg EXCEPT
        !.maps = @ + 1,
        !.center = IF \E i \in 1..Len(mapData) : mapData[i].center
                   THEN CHOOSE i \in 1..Len(mapData) :
                           /\ mapData[i].center
                           /\ \A j \in 1..(i - 1) : ~mapData[j].center
                   ELSE 0,
        !.markers = @ \o [i \in 1..Len(mapData) |-> mapData[i].name],
        !.idleListeners = @ + 1]

\* What the map operator of getTimeline hands on, r being what its function
\* returned: the day, or the error when the function threw.
\* st = [aggs, subs, page]
EmitDay(st, k, a, favs, r) ==
    [st EXCEPT
        !.aggs[a] = r.data,
        !.subs[k].status = IF r.threw THEN "threw" ELSE @,
        !.subs[k].got = IF r.threw THEN @
                        ELSE Append(@, [agg |-> a, day |-> r.day,
                                         favs |-> favs])]

\* Subscriber k takes the value a (an aggregate of the heap) from the cache:
\* the function of its query method is applied, and the result handed on
Emit(st, k, a, favs) ==
    IF st.subs[k].status # "active" THEN st
    ELSE IF st.subs[k].kind = "timeline"
    THEN EmitDay(st, k, a, favs,
            getTimeline(st.aggs[a], st.subs[k].dayIndex, st.subs[k].queryText,
                        st.subs[k].excludeTracks, st.subs[k].segment, favs))
    ELSE [st EXCEPT
            !.subs[k].got = Append(@, [agg |-> a, day |-> NoDay,
                                       favs |-> {}]),
            !.page = IF st.subs[k].isPage
                     THEN PageHandler(@, st.aggs[a].map) ELSE @]

\* Subject.next: every observer in turn
RECURSIVE Broadcast(_, _, _, _)
Broadcast(st, k, a, favs) ==
    IF k > Len(st.subs) THEN st
    ELSE Broadcast(Emit(st, k, a, favs), k + 1, a, favs)

\* Subject.complete and Subject.error: every observer is told and released
Stop(ss, status) ==
    [k \in 1..Len(ss) |->
        IF ss[k].status = "active" THEN [ss[k] EXCEPT !.status = status]
        ELSE ss[k]]

\* The cache is handed the value a by the request it observes
SubjectNext(st, a, favs) ==
    IF ~cache.isStopped /\ "next" \in ObserverForwards
    THEN Broadcast(st, 1, a, favs) ELSE st

\* The cache is handed the completion of the request it observes
SubjectComplete(st) ==
    IF ~cache.isStopped /\ "complete" \in ObserverForwards
    THEN [st EXCEPT !.subs = Stop(@, "completed")] ELSE st

\* The heap, the subscribers and the page as the handlers leave them
Commit(st) ==
    /\ aggs' = st.aggs
    /\ subs' = st.subs
    /\ page' = st.page

Init ==
    /\ replayBuffersWhenStopped \in BOOLEAN
    /\ inFlight = 1         \* the constructor calls refresh()
    /\ calls = 1
    /\ aggs = <<>>
    /\ cache = [events |-> <<>>, isStopped |-> FALSE, hasError |-> FALSE]
    /\ subs = <<>>
    /\ logged = 0
    /\ page = [loaded |-> FALSE, maps |-> 0, center |-> 0, markers |-> <<>>,
               idleListeners |-> 0, shown |-> FALSE]
    /\ fcall = [phase |-> "none"]

refresh ==
    /\ calls < MaxRefresh
    /\ calls' = calls + 1
    /\ inFlight' = inFlight + 1
    /\ UNCHANGED <<replayBuffersWhenStopped, aggs, cache, subs, logged, page,
                   fcall>>

\* The request answers with document d, which parses: both map operators
\* run, then the cache is handed the value and the completion of the request
FetchOk(d, favs) ==
    /\ inFlight > 0
    /\ inFlight' = inFlight - 1
    /\ Commit(SubjectComplete(SubjectNext(
            [aggs |-> Append(aggs, Pipeline(d)), subs |-> subs, page |-> page],
            Len(aggs) + 1, favs)))
    /\ cache' = [cache EXCEPT
                    !.events =
                        IF "next" \in ObserverForwards
                           /\ (~cache.isStopped \/ replayBuffersWhenStopped)
                        THEN <<Len(aggs) + 1>> ELSE @,
                    !.isStopped =
                        IF "complete" \in ObserverForwards THEN TRUE ELSE @]
    /\ UNCHANGED <<replayBuffersWhenStopped, calls, logged, fcall>>

\* The request fails, or res.json() throws
FetchFail ==
    /\ inFlight > 0
    /\ inFlight' = inFlight - 1
    /\ IF "error" \in ObserverForwards
       THEN /\ logged' = logged
            /\ IF cache.isStopped
               THEN UNCHANGED <<cache, subs>>
               ELSE /\ cache' = [cache EXCEPT !.isStopped = TRUE,
                                              !.hasError = TRUE]
                    /\ subs' = Stop(subs, "errored")
       ELSE /\ logged' = logged + 1
            /\ UNCHANGED <<cache, subs>>
    /\ UNCHANGED <<replayBuffersWhenStopped, calls, aggs, page, fcall>>

\* ReplaySubject._subscribe for a new subscriber: the buffer is replayed,
\* then the error or the completion of a stopped subject
Replay(st, k, favs) ==
    IF cache.events # <<>> THEN Emit(st, k, cache.events[1], favs) ELSE st

End(st, k) ==
    [st EXCEPT !.subs[k].status =
        IF @ # "active" THEN @
        ELSE IF cache.hasError THEN "errored"
        ELSE IF cache.isStopped THEN "completed" ELSE "active"]

Attach(s, favs) ==
    End(Replay([aggs |-> aggs, subs |-> Append(subs, s), page |-> page],
               Len(subs) + 1, favs),
        Len(subs) + 1)

\* A consumer subscribes to getTimeline(...), getSpeakers(), getTracks() or
\* getMap()
Subscribe(kind, dayIndex, queryText, excludeTracks, segment, favs) ==
    /\ Len(subs) < MaxSubs
    /\ Commit(Attach(NewSub(kind, dayIndex, queryText, excludeTracks,
                            segment, FALSE), favs))
    /\ UNCHANGED <<replayBuffersWhenStopped, inFlight, calls, cache, logged,
                   fcall>>

SubscribeTimeline ==
    \E q \in TimelineQueries, favs \in FavoriteSets :
        Subscribe("timeline", q[1], q[2], q[3], q[4], favs)

SubscribeList ==
    \E kind \in Kinds \ {"timeline"} :
        Subscribe(kind, 0, <<>>, <<>>, "all", {})

Loaded(st) == [st EXCEPT !.page.loaded = TRUE]

\* MapPage.onPageLoaded
onPageLoaded ==
    /\ ~page.loaded
    /\ Len(subs) < MaxSubs
    /\ Commit(Loaded(Attach(NewSub("map", 0, <<>>, <<>>, "all", TRUE), {})))
    /\ UNCHANGED <<replayBuffersWhenStopped, inFlight, calls, cache, logged,
                   fcall>>

\* The map widget reports idle: the once-only listener adds show-map
MapIdle ==
    /\ page.idleListeners > 0
    /\ page' = [page EXCEPT !.idleListeners = @ - 1, !.shown = TRUE]
    /\ UNCHANGED <<replayBuffersWhenStopped, inFlight, calls, aggs, cache,
                   subs, logged, fcall>>

Next ==
    \/ refresh
    \/ \E d \in DocIds, favs \in FavoriteSets : FetchOk(d, favs)
    \/ FetchFail
    \/ SubscribeTimeline
    \/ SubscribeList
    \/ onPageLoaded
    \/ MapIdle

Spec == Init /\ [][Next]_vars

-----------------------------------------------------------------------------
(* A consumer that reads the timeline again and again, as a schedule page   *)
(* does whenever its search text, its track filter or its segment changes   *)

\* getTimeline(...).subscribe(...) once the subject has let the earlier
\* subscribers go; they are dropped from the record
KeepLast(st) == [st EXCEPT !.subs = <<@[Len(@)]>>]

ReadTimeline ==
    /\ \A k \in 1..Len(subs) : subs[k].status # "active"
    /\ \E dayIndex \in DayIndexes, queryText \in QueryTexts,
          excludeTracks \in ExcludeLists, segment \in Segments,
          favs \in FavoriteSets :
        Commit(KeepLast(Attach(NewSub("timeline", dayIndex, queryText,
                                      excludeTracks, segment, FALSE), favs)))
    /\ UNCHANGED <<replayBuffersWhenStopped, inFlight, calls, cache, logged,
                   fcall>>

NextTimeline ==
    \/ \E d \in DocIds, favs \in FavoriteSets : FetchOk(d, favs)
    \/ FetchFail
    \/ ReadTimeline

SpecTimeline == Init /\ [][NextTimeline]_vars

-----------------------------------------------------------------------------
(* A direct call of the public method filterSession *)

\* The sessions of the processed documents, hide being either way before
AllSessions ==
    UNION { { [SessionAt(Pipeline(d), SessionPaths(Pipeline(d))[i])
                  EXCEPT !.hide = h] :
              i \in 1..Len(SessionPaths(Pipeline(d))), h \in BOOLEAN } :
            d \in DocIds }

\* [], ["a"], ["A"], ["z", "b"], [""]
WordLists == {<<>>, << <<97>> >>, << <<65>> >>, << <<122>>, <<98>> >>,
              << <<>> >>}

DirectSegments == {"all", "favorites", "mine"}

InitFilter ==
    /\ replayBuffersWhenStopped = FALSE
    /\ inFlight = 1
    /\ calls = 1
    /\ aggs = <<>>
    /\ cache = [events |-> <<>>, isStopped |-> FALSE, hasError |-> FALSE]
    /\ subs = <<>>
    /\ logged = 0
    /\ page = [loaded |-> FALSE, maps |-> 0, center |-> 0, markers |-> <<>>,
               idleListeners |-> 0, shown |-> FALSE]
    /\ fcall \in [phase : {"called"}, session : AllSessions,
                  queryWords : WordLists, excludeTracks : ExcludeLists,
                  segment : DirectSegments, favs : FavoriteSets]

\* The call after filterSession has returned or thrown
Outcome(c, r) ==
    [c EXCEPT !.session = r.session,
              !.phase = IF r.threw THEN "threw" ELSE "returned"]

CallFilterSession ==
    /\ fcall.phase = "called"
    /\ fcall' = Outcome(fcall,
                    filterSession(fcall.session, fcall.queryWords,
                                  fcall.excludeTracks, fcall.segment,
                                  fcall.favs))
    /\ UNCHANGED <<replayBuffersWhenStopped, inFlight, calls, aggs, cache,
                   subs, logged, page>>

SpecFilter == InitFilter /\ [][CallFilterSession]_vars

-----------------------------------------------------------------------------
(* Properties *)

Range(seq) == {seq[i] : i \in 1..Len(seq)}

\* C1: when a fetch or a parse fails, the cache and its subscribers are left
\* as they were (nothing published, nobody told, later values still
\* delivered) and the error goes to the diagnostic sink.
C1_FailureLeavesCacheUnchanged ==
    [][FetchFail => /\ cache' = cache
                    /\ subs' = subs
                    /\ logged' = logged + 1]_vars

\* C2: every successful fetch, the second and later ones too, gives every
\* subscriber that subscribed earlier one further emission, projected from
\* the aggregate just fetched.
C2_EverySuccessfulRefreshReemits ==
    [][\A d \in DocIds, favs \in FavoriteSets :
         FetchOk(d, favs) =>
            \A k \in 1..Len(subs) :
                (subs[k].status \notin {"threw", "errored"}
                 /\ subs'[k].status # "threw")
                => /\ Len(subs'[k].got) = Len(subs[k].got) + 1
                   /\ subs'[k].got[Len(subs'[k].got)].agg = Len(aggs')]_vars

\* C3: whoever subscribes after one or more successful fetches is handed at
\* once the aggregate of the most recent of them, and whoever subscribes
\* before any is handed nothing until the first one succeeds.
C3_NewSubscriberGetsLatest ==
    \A k \in 1..Len(subs) :
        subs[k].status # "threw" =>
            IF subs[k].at >= 1
            THEN Len(subs[k].got) >= 1 /\ subs[k].got[1].agg = subs[k].at
            ELSE Len(aggs) = 0 => subs[k].got = <<>>

\* The three tests of the filter, stated on the arguments of the call
TrackTest(session, excludeTracks) ==
    \E t \in Range(session.tracks) : t \notin Range(excludeTracks)

SegmentTest(session, segment, favs) ==
    segment # "favorites" \/ session.name \in favs

TextTestAnyCase(session, queryWords) ==
    \/ queryWords = <<>>
    \/ \E w \in Range(queryWords) :
          Contains(toLowerCase(session.name), toLowerCase(w))

TextTestAsGiven(session, queryWords) ==
    \/ queryWords = <<>>
    \/ \E w \in Range(queryWords) : Contains(toLowerCase(session.name), w)

RECURSIVE CountShown(_, _)
CountShown(day, g) ==
    IF g > Len(day.groups) THEN 0
    ELSE Cardinality({s \in 1..Len(day.groups[g].sessions) :
                         ~day.groups[g].sessions[s].hide})
         + CountShown(day, g + 1)

TimelineEmissions ==
    {<<k, i>> \in (1..Len(subs)) \X (1..MaxRefresh + 1) :
        subs[k].kind = "timeline" /\ i <= Len(subs[k].got)}

\* C5: every day getTimeline emits has shownSessions equal to the number of
\* its sessions that pass the filter of that call, those and no others being
\* not hidden, and each of its groups hidden exactly when all its sessions
\* are (a group without sessions is hidden).
C5_TimelineCounts ==
    \A e \in TimelineEmissions :
        LET s == subs[e[1]]
            day == s.got[e[2]].day
            favs == s.got[e[2]].favs
        IN  /\ day.shownSessions = CountShown(day, 1)
            /\ \A g \in 1..Len(day.groups) :
                /\ day.groups[g].hide <=>
                      \A x \in Range(day.groups[g].sessions) : x.hide
                /\ \A x \in Range(day.groups[g].sessions) :
                      ~x.hide <=>
                         /\ TextTestAsGiven(x, QueryWords(s.queryText))
                         /\ TrackTest(x, s.excludeTracks)
                         /\ SegmentTest(x, s.segment, favs)

\* A day is emitted with one session of two shown in a group, beside a group
\* without sessions, after the other day has been read as well
C5_Witness ==
    \E e \in TimelineEmissions :
        LET day == subs[e[1]].got[e[2]].day
        IN  /\ day.shownSessions = 1
            /\ Len(day.groups) = 2
            /\ Len(day.groups[1].sessions) = 2
            /\ ~day.groups[1].hide
            /\ day.groups[2].hide
            /\ aggs[1].schedule[2].shownSessions >= 0

\* C6: in every processed aggregate a session's speakers are exactly the
\* speakers named in its speakerNames, and a speaker is among a session's
\* speakers exactly when the session is among the speaker's sessions.
C6_LinksBidirectional ==
    \A a \in 1..Len(aggs) :
        \A p \in Range(SessionPaths(aggs[a])) :
            \A i \in 1..Len(aggs[a].speakers) :
                LET session == SessionAt(aggs[a], p)
                    speaker == aggs[a].speakers[i]
                IN  /\ speaker.id \in Range(session.speakers)
                       <=> /\ session.hasSpeakerNames
                           /\ speaker.name \in Range(session.speakerNames)
                    /\ speaker.id \in Range(session.speakers)
                       <=> /\ speaker.hasSessions
                           /\ p \in Range(speaker.sessions)

\* Document 1 has been processed: a session with two known names, one with
\* a known and an unknown name, one without names
C6_Witness ==
    /\ Len(aggs) >= 1
    /\ aggs[1].doc = 1
    /\ Len(SessionAt(aggs[1], <<1, 1, 1>>).speakers) = 2
    /\ Len(SessionAt(aggs[1], <<1, 1, 2>>).speakers) = 1
    /\ SessionAt(aggs[1], <<2, 1, 1>>).speakers = <<>>

PageSubs == {k \in 1..Len(subs) : subs[k].isPage}

Complete(data) ==
    /\ data.hasTracks
    /\ \A i \in 1..(Len(data.tracks) - 1) :
          CompareUnits(data.tracks[i], data.tracks[i + 1]) < 0
    /\ Range(data.tracks) =
          UNION {Range(SessionAt(data, p).tracks) :
                    p \in Range(SessionPaths(data))}
    /\ \A i \in 1..(Len(data.speakers) - 1) :
          localeCompare(LastToken(data.speakers[i].name),
                        LastToken(data.speakers[i + 1].name)) <= 0
    /\ \A p \in Range(SessionPaths(data)) : SessionAt(data, p).hasSpeakers
    /\ data.map = Document(data.doc).map
    /\ {x.name : x \in Range(data.speakers)} =
          {x.name : x \in Range(Document(data.doc).speakers)}
    /\ SessionPaths(data) = SessionPaths(Document(data.doc))
    /\ \A p \in Range(SessionPaths(data)) :
          SessionAt(data, p).name = SessionAt(Document(data.doc), p).name

\* C8: whatever a consumer is handed, and whatever the cache holds, comes
\* from a complete aggregate: every session linked, tracks the distinct track
\* names in order, speakers in order, all of one document.
C8_OnlyCompleteAggregates ==
    /\ \A k \in 1..Len(subs) :
          \A e \in Range(subs[k].got) : Complete(aggs[e.agg])
    /\ \A a \in Range(cache.events) : Complete(aggs[a])

\* A consumer has been handed the aggregate of document 1, with its three
\* tracks and three speakers
C8_Witness ==
    \E k \in 1..Len(subs) :
        \E e \in Range(subs[k].got) :
            /\ aggs[e.agg].doc = 1
            /\ Len(aggs[e.agg].tracks) = 3
            /\ aggs[e.agg].speakers[1].id = 2

\* C9: no call of a documented method throws; here filterSession.
C9_NoCallThrows == fcall.phase # "threw"

\* What processing derives: tracks, the order of the speakers, the links
Derived(data) ==
    [tracks |-> data.tracks,
     order |-> [i \in 1..Len(data.speakers) |-> data.speakers[i].id],
     sessionsOf |-> [i \in 1..Len(data.speakers) |-> data.speakers[i].sessions],
     speakersOf |-> [i \in 1..Len(SessionPaths(data)) |->
                        SessionAt(data, SessionPaths(data)[i]).speakers]]

=============================================================================
